---- MODULE Spec2Model ----
(***************************************************************************)
(* A model of the scalar automatic-differentiation engine of               *)
(* src/src/engine.rs: the Value graph (an arena of nodes, a Value handle   *)
(* being a node index), the operator surface that builds it, and the       *)
(* backward pass (Value::backward / Value::update_gradients).              *)
(*                                                                         *)
(* Numbers.  The engine computes in f32.  The model computes in exact      *)
(* rationals <<numerator, denominator>> in lowest terms with a positive    *)
(* denominator, so that a / b and b / a, or g and 2 * g, are told apart.   *)
(* Rounding is not modelled.  A division whose divisor is zero (f32 gives  *)
(* an infinity or a NaN) is kept out of the inputs: the divisions are      *)
(* guarded by a non-zero divisor.                                          *)
(***************************************************************************)
EXTENDS Integers, Sequences, FiniteSets, TLC

\* ------------------------------------------------------------------ bounds
\* Nodes / backward() calls of the full specification (every operation).
MaxNodes == 3
MaxCalls == 1
\* Nodes / backward() calls of the Add-Multiply specifications.
MaxNodesDag == 4
MaxCallsDag == 1
MaxNodesTwice == 3
MaxCallsTwice == 2
\* Nodes / backward() calls of the specification with fairness.
MaxNodesFair == 3
MaxCallsFair == 1

\* The literals a caller passes: to Value::new, as the f32 operand of a
\* scalar-mixed operation (never 0: see the note on division), to powf.
LeafVals == {-3, 2}
RawVals == {3}
PowExps == {2}

\* ------------------------------------------------------------- arithmetic
\* The one element of a singleton set.  Writing an operator's result as
\* The({e : x \in {a}}) has TLC evaluate the argument a once, whatever the
\* number of times e uses x.
The(S) == CHOOSE v \in S : TRUE

Abs(i) == IF i < 0 THEN -i ELSE i

RECURSIVE Gcd(_, _)
Gcd(a, b) == IF b = 0 THEN a ELSE The({Gcd(b, r) : r \in {a % b}})

\* The rational n / d (d # 0) in lowest terms, denominator positive.
Norm(n, d) ==
    The({<<(s * n) \div k, (s * d) \div k>> :
            k \in {Gcd(Abs(n), Abs(d))}, s \in {IF d < 0 THEN -1 ELSE 1}})

Rat(i) == <<i, 1>>
Zero == Rat(0)
One == Rat(1)

\* The four operations keep the intermediate products small (the common
\* factors are divided out before multiplying), the results are as Norm's.
RAdd(a, b) ==
    The({The({Norm(x[1] * (y[2] \div k) + y[1] * (x[2] \div k),
                   (x[2] \div k) * y[2]) : k \in {Gcd(x[2], y[2])}}) :
            x \in {a}, y \in {b}})

RNeg(x) == <<-x[1], x[2]>>

RSub(x, y) == RAdd(x, RNeg(y))

RMul(a, b) ==
    The({The({Norm((x[1] \div k) * (y[1] \div h),
                   (x[2] \div h) * (y[2] \div k)) :
                 k \in {Gcd(Abs(x[1]), y[2])}, h \in {Gcd(Abs(y[1]), x[2])}}) :
            x \in {a}, y \in {b}})

\* y # Zero
RDiv(x, y) == RMul(x, Norm(y[2], y[1]))

\* f32::powf(x, e) for the exponents the model passes: e a natural number.
RECURSIVE IntPow(_, _)
IntPow(x, k) == IF k <= 0 THEN One ELSE RMul(x, IntPow(x, k - 1))

f32_powf(x, e) == IntPow(x, e[1])

\* f32::tanh.  A transcendental function has no rational values; the model
\* uses the rational sigmoid x / (1 + |x|), which like tanh is odd, strictly
\* increasing, 0 at 0 and of range (-1, 1).
f32_tanh(x) == RDiv(x, RAdd(One, <<Abs(x[1]), x[2]>>))

\* f32::exp.  The model uses 1 + x for x >= 0 and its reciprocal 1 / (1 - x)
\* for x < 0: like exp it is positive, strictly increasing, 1 at 0, and
\* exp(-x) = 1 / exp(x).
f32_exp(x) == IF x[1] >= 0 THEN RAdd(One, x) ELSE RDiv(One, RSub(One, x))

\* ------------------------------------------------------------------ state
VARIABLES
    data,       \* data[n]: ValueData.data of node n
    grad,       \* grad[n]: ValueData.grad
    children,   \* children[n]: ValueData.children, a sequence of nodes
    op,         \* op[n]: ValueData.op; "None" for Option::None
    stack,      \* the update_gradients calls still to run, next one first
    built,      \* history: the operation of the operator surface that made n
    root,       \* history: the root of the latest backward() call, 0 if none
    grad0,      \* history: grad as the latest backward() call found it
    applied,    \* history: applied[n] = times n's rule ran in the latest
                \*          call, counted 0, 1, 2 (2 = twice or more)
    calls,      \* history: backward() calls made
    prevRoot,   \* history: the root of the call before the latest, 0 if none
    prevClean   \* history: that call found every gradient at 0

vars == <<data, grad, children, op, stack, built, root, grad0, applied,
          calls, prevRoot, prevClean>>

hist == <<root, grad0, applied, calls, prevRoot, prevClean>>

Nodes == 1 .. Len(data)

Operation == {"Add", "Mul", "Tanh", "Exp", "Pow"}

Init ==
    /\ data = <<>>
    /\ grad = <<>>
    /\ children = <<>>
    /\ op = <<>>
    /\ stack = <<>>
    /\ built = <<>>
    /\ root = 0
    /\ grad0 = <<>>
    /\ applied = <<>>
    /\ calls = 0
    /\ prevRoot = 0
    /\ prevClean = FALSE

\* No call of the operator surface runs while backward() is running: the
\* program is single-threaded.
Idle == stack = <<>>

\* Rc::new(RefCell::new(ValueData {data: d, grad: 0.0, children: ch, op: o})).
Alloc(d, ch, o, b) ==
    /\ data' = Append(data, d)
    /\ grad' = Append(grad, Zero)
    /\ children' = Append(children, ch)
    /\ op' = Append(op, o)
    /\ built' = Append(built, b)
    /\ UNCHANGED <<stack, hist>>

\* The same with the second child Value::new(raw), which is made first:
\* children: vec![v, Value::new(raw)].
AllocWrap(d, v, raw, o, b) ==
    LET leaf == Len(data) + 1 IN
    /\ data' = data \o <<Rat(raw), d>>
    /\ grad' = grad \o <<Zero, Zero>>
    /\ children' = children \o << <<>>, <<v, leaf>> >>
    /\ op' = op \o <<"None", o>>
    /\ built' = built \o <<"new", b>>
    /\ UNCHANGED <<stack, hist>>

\* --------------------------------------------------- the operator surface
\* Every action takes the bound on the number of nodes of its specification.
Room(maxN, k) == Idle /\ Len(data) + k <= maxN

new(maxN) ==
    /\ Room(maxN, 1)
    /\ \E value \in LeafVals : Alloc(Rat(value), <<>>, "None", "new")

tanh(maxN) ==
    /\ Room(maxN, 1)
    /\ \E self \in Nodes : Alloc(f32_tanh(data[self]), <<self>>, "Tanh", "tanh")

exp(maxN) ==
    /\ Room(maxN, 1)
    /\ \E self \in Nodes : Alloc(f32_exp(data[self]), <<self>>, "Tanh", "exp")

powf(maxN) ==
    /\ Room(maxN, 2)
    /\ \E self \in Nodes, x \in PowExps :
          AllocWrap(f32_powf(data[self], Rat(x)), self, x, "Pow", "powf")

\* A variant of add that stores the sum in its left operand instead of
\* making a node.
add_in_place(maxN) ==
    /\ Room(maxN, 1)
    /\ \E self \in Nodes, rhs \in Nodes :
          data' = [data EXCEPT ![self] = RAdd(data[self], data[rhs])]
    /\ UNCHANGED <<grad, children, op, built, stack, hist>>

\* impl Add for Value
add(maxN) ==
    /\ Room(maxN, 1)
    /\ \E self \in Nodes, rhs \in Nodes :
          Alloc(RAdd(data[self], data[rhs]), <<self, rhs>>, "Add", "add")

\* impl Add<f32> for Value
add_f32(maxN) ==
    /\ Room(maxN, 2)
    /\ \E self \in Nodes, rhs \in RawVals :
          AllocWrap(RAdd(data[self], Rat(rhs)), self, rhs, "Add", "add_f32")

\* impl Add<Value> for f32
f32_add(maxN) ==
    /\ Room(maxN, 2)
    /\ \E self \in RawVals, rhs \in Nodes :
          AllocWrap(RAdd(data[rhs], Rat(self)), rhs, self, "Add", "f32_add")

\* impl Sub for Value
sub(maxN) ==
    /\ Room(maxN, 1)
    /\ \E self \in Nodes, rhs \in Nodes :
          Alloc(RSub(data[self], data[rhs]), <<self, rhs>>, "Add", "sub")

\* impl Sub<f32> for Value
sub_f32(maxN) ==
    /\ Room(maxN, 2)
    /\ \E self \in Nodes, rhs \in RawVals :
          AllocWrap(RSub(data[self], Rat(rhs)), self, rhs, "Add", "sub_f32")

\* impl Sub<Value> for f32
f32_sub(maxN) ==
    /\ Room(maxN, 2)
    /\ \E self \in RawVals, rhs \in Nodes :
          AllocWrap(RSub(Rat(self), data[rhs]), rhs, self, "Add", "f32_sub")

\* impl Mul for Value
mul(maxN) ==
    /\ Room(maxN, 1)
    /\ \E self \in Nodes, rhs \in Nodes :
          Alloc(RMul(data[self], data[rhs]), <<self, rhs>>, "Mul", "mul")

\* impl Mul<f32> for Value
mul_f32(maxN) ==
    /\ Room(maxN, 2)
    /\ \E self \in Nodes, rhs \in RawVals :
          AllocWrap(RMul(data[self], Rat(rhs)), self, rhs, "Add", "mul_f32")

\* impl Mul<Value> for f32
f32_mul(maxN) ==
    /\ Room(maxN, 2)
    /\ \E self \in RawVals, rhs \in Nodes :
          AllocWrap(RMul(data[rhs], Rat(self)), rhs, self, "Add", "f32_mul")

\* impl Div for Value
div(maxN) ==
    /\ Room(maxN, 1)
    /\ \E self \in Nodes, rhs \in Nodes :
          /\ data[rhs] # Zero
          /\ Alloc(RDiv(data[self], data[rhs]), <<self, rhs>>, "Mul", "div")

\* impl Div<f32> for Value
div_f32(maxN) ==
    /\ Room(maxN, 2)
    /\ \E self \in Nodes, rhs \in RawVals :
          /\ rhs # 0
          /\ AllocWrap(RDiv(data[self], Rat(rhs)), self, rhs, "Add", "div_f32")

\* impl Div<Value> for f32
f32_div(maxN) ==
    /\ Room(maxN, 2)
    /\ \E self \in RawVals, rhs \in Nodes :
          /\ self # 0
          /\ AllocWrap(RDiv(data[rhs], Rat(self)), rhs, self, "Add", "f32_div")

\* ------------------------------------------------------------ the backward pass
\* A variant of add_grad that overwrites the gradient.
add_grad_overwrite(g, c, x) == [g EXCEPT ![c] = x]

\* Value::add_grad on node c of the gradients g.
add_grad(g, c, x) == [g EXCEPT ![c] = RAdd(g[c], x)]

\* Value::set_grad
set_grad(g, c, x) == [g EXCEPT ![c] = x]

\* The match of update_gradients on node self: the gradients after the arm
\* of self's operation, from the gradients g.  Each add_grad reads
\* self.get_grad() anew; the operands are read after the earlier add_grad.
AddArm(g, self) ==
    LET ch == children[self]
        g1 == add_grad(g, ch[1], g[self])
    IN  add_grad(g1, ch[2], g1[self])

MulArm(g, self) ==
    LET ch == children[self]
        g1 == add_grad(g, ch[1], RMul(data[ch[2]], g[self]))
    IN  add_grad(g1, ch[2], RMul(data[ch[1]], g1[self]))

TanhArm(g, self) ==
    add_grad(g, children[self][1], RSub(One, f32_powf(data[self], Rat(2))))

ExpArm(g, self) ==
    add_grad(g, children[self][1], RMul(data[self], g[self]))

PowArm(g, self) ==
    LET x == children[self][2]
        val == children[self][1]
    IN  add_grad(g, val,
                 RMul(RMul(data[x], f32_powf(data[val], RSub(data[x], One))),
                      g[self]))

Arm(g, self) ==
    CASE op[self] = "Add" -> AddArm(g, self)
      [] op[self] = "Mul" -> MulArm(g, self)
      [] op[self] = "Tanh" -> TanhArm(g, self)
      [] op[self] = "Exp" -> ExpArm(g, self)
      [] op[self] = "Pow" -> PowArm(g, self)
      [] OTHER -> g

\* A variant of Pending in which the call on a leaf calls itself again.
PendingLeafAgain(self, rest) ==
    IF children[self] = <<>> THEN <<self>> \o rest ELSE children[self] \o rest

\* The calls pending after update_gradients on self has run its match: the
\* loop `for child in children { child.update_gradients() }` runs each
\* child's call, in order, before the caller's remaining calls.
Pending(self, rest) == children[self] \o rest

Bump(k) == IF k >= 2 THEN 2 ELSE k + 1

\* One call of Value::update_gradients: the one at the head of the stack.
update_gradients ==
    /\ stack # <<>>
    /\ LET self == Head(stack) IN
          /\ grad' = Arm(grad, self)
          /\ stack' = Pending(self, Tail(stack))
          /\ applied' = [applied EXCEPT ![self] = Bump(@)]
    /\ UNCHANGED <<data, children, op, built, root, grad0, calls,
                   prevRoot, prevClean>>

\* A variant of backward that first resets every gradient to 0.
backward_zero_grad(maxC) ==
    /\ Idle
    /\ calls < maxC
    /\ \E self \in Nodes :
          /\ grad' = [n \in Nodes |-> IF n = self THEN One ELSE Zero]
          /\ stack' = <<self>>
          /\ root' = self
    /\ grad0' = grad
    /\ applied' = [n \in Nodes |-> 0]
    /\ calls' = calls + 1
    /\ prevRoot' = root
    /\ prevClean' = (\A n \in DOMAIN grad0 : grad0[n] = Zero)
    /\ UNCHANGED <<data, children, op, built>>

\* Value::backward, up to its call of update_gradients on the root.
backward(maxC) ==
    /\ Idle
    /\ calls < maxC
    /\ \E self \in Nodes :
          /\ grad' = set_grad(grad, self, One)
          /\ stack' = <<self>>
          /\ root' = self
    /\ grad0' = grad
    /\ applied' = [n \in Nodes |-> 0]
    /\ calls' = calls + 1
    /\ prevRoot' = root
    /\ prevClean' = (\A n \in DOMAIN grad0 : grad0[n] = Zero)
    /\ UNCHANGED <<data, children, op, built>>

\* ----------------------------------------------------------- specifications
Build(maxN) ==
    \/ new(maxN) \/ tanh(maxN) \/ exp(maxN) \/ powf(maxN)
    \/ add(maxN) \/ add_f32(maxN) \/ f32_add(maxN)
    \/ sub(maxN) \/ sub_f32(maxN) \/ f32_sub(maxN)
    \/ mul(maxN) \/ mul_f32(maxN) \/ f32_mul(maxN)
    \/ div(maxN) \/ div_f32(maxN) \/ f32_div(maxN)

\* Every operation of the engine.
Next == Build(MaxNodes) \/ backward(MaxCalls) \/ update_gradients

Spec == Init /\ [][Next]_vars

\* Leaves, Add and Multiply of two nodes, one backward() call.
NextDag ==
    \/ new(MaxNodesDag) \/ add(MaxNodesDag) \/ mul(MaxNodesDag)
    \/ backward(MaxCallsDag) \/ update_gradients

SpecDag == Init /\ [][NextDag]_vars

\* Leaves, Add and Multiply of two nodes, repeated backward() calls.
NextTwice ==
    \/ new(MaxNodesTwice) \/ add(MaxNodesTwice) \/ mul(MaxNodesTwice)
    \/ backward(MaxCallsTwice) \/ update_gradients

SpecTwice == Init /\ [][NextTwice]_vars

\* One operation of each shape of node (no operand, one operand, two
\* operands, an operand and a wrapped scalar) and of each rule that a tag
\* can select; a backward() call that has started keeps running (the
\* program is one thread that nothing suspends).
NextFair ==
    \/ new(MaxNodesFair) \/ tanh(MaxNodesFair) \/ powf(MaxNodesFair)
    \/ add(MaxNodesFair) \/ mul(MaxNodesFair) \/ f32_sub(MaxNodesFair)
    \/ backward(MaxCallsFair) \/ update_gradients

SpecFair == Init /\ [][NextFair]_vars /\ WF_vars(update_gradients)

\* ------------------------------------------------------------- the claims
\* The nodes reachable from r through children, r included.
RECURSIVE Reach(_)
Reach(r) ==
    {r} \cup UNION {Reach(children[r][i]) : i \in 1 .. Len(children[r])}

\* The nodes that list n as an operand.
Consumers(n) ==
    {c \in Nodes : \E i \in 1 .. Len(children[c]) : children[c][i] = n}

\* A backward() call has returned.
Done == root # 0 /\ stack = <<>>

\* The latest backward() call found every gradient at 0.
Clean == \A n \in DOMAIN grad0 : grad0[n] = Zero

\* The partial derivative of r's value with respect to n's value, in a graph
\* of leaves, sums (a + b) and products (a * b): the chain rule, summed over
\* the operands of r.
RECURSIVE Partial(_, _)
Partial(r, n) ==
    IF r = n THEN One
    ELSE IF built[r] = "add"
    THEN RAdd(Partial(children[r][1], n), Partial(children[r][2], n))
    ELSE IF built[r] = "mul"
    THEN RAdd(RMul(data[children[r][2]], Partial(children[r][1], n)),
              RMul(data[children[r][1]], Partial(children[r][2], n)))
    ELSE Zero

\* C1: after one backward() on a root of an Add/Multiply graph whose
\* gradients were all 0, the gradient of every node reachable from the root
\* is the partial derivative of the root's value with respect to that node.
C1_GradientIsPartial ==
    (Done /\ Clean) =>
        \A n \in Reach(root) : grad[n] = Partial(root, n)

\* C7: during one backward() call the rule of every node reachable from the
\* root (every node that has a rule: an operation) is applied exactly once.
C7_RuleAppliedOnce ==
    Done => \A n \in Reach(root) : op[n] # "None" => applied[n] = 1

\* C8: when a node's rule is about to be applied (its update_gradients call
\* is the next to run, and it has an operation), every consumer of the node
\* that is reachable from the root has already applied its own rule.
C8_ConsumersFirst ==
    (stack # <<>> /\ op[Head(stack)] # "None") =>
        \A c \in Consumers(Head(stack)) \cap Reach(root) : applied[c] >= 1

\* C4: for a leaf a whose gradient was 0 and b = a + a, after backward()
\* from b the gradient of a is exactly 2.
C4_SelfAddGradientTwo ==
    \A b \in Nodes :
        (/\ Done
         /\ root = b
         /\ built[b] = "add"
         /\ children[b][1] = children[b][2]
         /\ op[children[b][1]] = "None"
         /\ grad0[children[b][1]] = Zero)
        => grad[children[b][1]] = Rat(2)

\* A backward() from b = a + a, a a leaf with gradient 0, has returned.
C4_Witness ==
    /\ Done
    /\ built[root] = "add"
    /\ children[root][1] = children[root][2]
    /\ op[children[root][1]] = "None"
    /\ grad0[children[root][1]] = Zero
    /\ grad[children[root][1]] = Rat(2)

\* The second of two consecutive backward() calls on the same root has
\* returned; the first found every gradient at 0 and none was reset since.
SecondCallDone == Done /\ prevRoot = root /\ prevClean

\* The operands of r that no other node reachable from r consumes.
OwnOperands(r) ==
    {n \in Reach(r) \ {r} : Consumers(n) \cap Reach(r) = {r}}

\* C6 as stated: after the second call the root's gradient is 1 and the
\* gradient of every other node reachable from the root is twice the
\* gradient it had after the first call.
C6_EveryGradientDoubled ==
    SecondCallDone =>
        /\ grad[root] = One
        /\ \A n \in Reach(root) \ {root} : grad[n] = RMul(Rat(2), grad0[n])

\* C6 amended: after the second call the root's gradient is 1 and the
\* gradient of every operand of the root that no other node reachable from
\* the root consumes is twice the gradient it had after the first call.
C6_OwnOperandsDoubled ==
    SecondCallDone =>
        /\ grad[root] = One
        /\ \A n \in OwnOperands(root) : grad[n] = RMul(Rat(2), grad0[n])

\* A second call has returned on a root with an operand of its own whose
\* gradient is not 0, above a deeper node.
C6_Witness ==
    /\ SecondCallDone
    /\ \E n \in OwnOperands(root) :
          /\ grad0[n] # Zero
          /\ grad[n] = RMul(Rat(2), grad0[n])
          /\ children[n] # <<>>

\* The left-hand and right-hand operand of the binary operation that made n.
\* A raw-scalar-with-node operation stores its right-hand operand first.
ScalarFirst == {"f32_add", "f32_sub", "f32_mul", "f32_div"}

Lhs(n) == IF built[n] \in ScalarFirst THEN children[n][2] ELSE children[n][1]

Rhs(n) == IF built[n] \in ScalarFirst THEN children[n][1] ELSE children[n][2]

Adds == {"add", "add_f32", "f32_add"}
Subs == {"sub", "sub_f32", "f32_sub"}
Muls == {"mul", "mul_f32", "f32_mul"}
Divs == {"div", "div_f32", "f32_div"}

\* The forward formula of the binary operation that made n, on a and b.
Forward(n, a, b) ==
    CASE built[n] \in Adds -> RAdd(a, b)
      [] built[n] \in Subs -> RSub(a, b)
      [] built[n] \in Muls -> RMul(a, b)
      [] built[n] \in Divs -> RDiv(a, b)

\* C2: the value of a node made by Add, Subtract, Multiply or Divide, in any
\* of the three shapes, is the forward formula on the left-hand operand as a
\* and the right-hand operand as b (a quotient by 0 left aside).
C2_ForwardValue ==
    \A n \in Nodes :
        (/\ built[n] \in Adds \cup Subs \cup Muls \cup Divs
         /\ ~(built[n] \in Divs /\ data[Rhs(n)] = Zero))
        => data[n] = Forward(n, data[Lhs(n)], data[Rhs(n)])

\* The gradients after the true local derivative of the operation that made
\* n has been applied to the gradients g with n's gradient as the upstream
\* gradient: what the rule of n's operation has to add to n's operands.
TrueRule(g, n) ==
    LET up == g[n]
        plus(gg, c, x) == [gg EXCEPT ![c] = RAdd(gg[c], x)]
        a == Lhs(n)
        b == Rhs(n)
    IN  CASE built[n] \in Adds -> plus(plus(g, a, up), b, up)
          [] built[n] \in Subs -> plus(plus(g, a, up), b, RNeg(up))
          [] built[n] \in Muls ->
                plus(plus(g, a, RMul(data[b], up)), b, RMul(data[a], up))
          [] built[n] \in Divs ->
                IF data[b] = Zero THEN g
                ELSE plus(plus(g, a, RDiv(up, data[b])), b,
                          RNeg(RDiv(RMul(data[a], up), RMul(data[b], data[b]))))
          [] built[n] = "tanh" ->
                plus(g, children[n][1],
                     RMul(RSub(One, RMul(data[n], data[n])), up))
          [] built[n] = "exp" -> plus(g, children[n][1], RMul(data[n], up))
          [] built[n] = "powf" ->
                plus(g, children[n][1],
                     RMul(RMul(data[children[n][2]],
                               IntPow(data[children[n][1]],
                                      data[children[n][2]][1] - 1)), up))
          [] OTHER -> g

\* C3: whatever operation made a node, the rule its recorded tag selects
\* when update_gradients runs on it adds the true derivative of that
\* operation to the operands' gradients.
C3_TagSelectsTrueRule ==
    [][stack # <<>> /\ ~(built[Head(stack)] \in Divs /\ data[Rhs(Head(stack))] = Zero)
          => grad' = TrueRule(grad, Head(stack))]_vars

\* C9: when the rule of a node n made by tanh is applied, the operand's
\* gradient grows by (1 - n.value^2) * n.gradient.
C9_TanhRuleUsesUpstream ==
    [][stack # <<>> /\ built[Head(stack)] = "tanh"
          => LET n == Head(stack)
                 a == children[n][1]
             IN  grad'[a] =
                     RAdd(grad[a],
                          RMul(RSub(One, RMul(data[n], data[n])), grad[n]))]_vars

\* Every operand of a node is an older node: the operand graph has no cycle.
Acyclic ==
    \A n \in Nodes : \A i \in 1 .. Len(children[n]) :
        children[n][i] \in 1 .. n - 1

\* A step keeps every existing node's value, operands and operation; a step
\* of the operator surface (one that makes nodes) also keeps every existing
\* gradient and makes its nodes with gradient 0; a step of backward() makes
\* no node.
StructureKept ==
    /\ Len(data') >= Len(data)
    /\ \A n \in Nodes :
          /\ data'[n] = data[n]
          /\ children'[n] = children[n]
          /\ op'[n] = op[n]
          /\ Len(data') > Len(data) => grad'[n] = grad[n]
    /\ \A n \in Len(data) + 1 .. Len(data') : grad'[n] = Zero
    /\ (stack # <<>> \/ stack' # <<>>) => Len(data') = Len(data)

\* C5: the operand graph stays acyclic, every operation makes new nodes
\* with gradient 0 and leaves every existing node as it was, and backward()
\* changes no node's value, operands or operation.
C5_StructureImmutable == []Acyclic /\ [][StructureKept]_vars

\* backward() has returned on a node made by a scalar-mixed operation and
\* has left gradients in its graph.
C5_Witness ==
    /\ Done
    /\ built[root] \in {"mul_f32", "f32_sub", "div_f32", "powf"}
    /\ \A i \in 1 .. Len(children[root]) : grad[children[root][i]] # Zero

\* backward() on a leaf root does no more than set that leaf's gradient to
\* 1: one update_gradients call, every other gradient as it was.
LeafRootNoop ==
    (root # 0 /\ op[root] = "None") =>
        /\ stack \in {<<>>, <<root>>}
        /\ grad[root] = One
        /\ \A n \in DOMAIN grad0 \ {root} : applied[n] = 0 /\ grad[n] = grad0[n]
        /\ \A n \in Nodes \ DOMAIN grad0 : grad[n] = Zero

\* C10: every backward() call returns, and on a leaf root it does nothing
\* beyond setting the leaf's gradient to 1.
C10_BackwardTerminates == []LeafRootNoop /\ ((stack # <<>>) ~> (stack = <<>>))

\* backward() has returned from a root with operands, every node reachable
\* from it visited, and the leaves below it more than once.
C10_Witness ==
    /\ Done
    /\ children[root] # <<>>
    /\ \A n \in Reach(root) : applied[n] >= 1
    /\ \E n \in Reach(root) : op[n] = "None" /\ applied[n] = 2

====
